---- MODULE Spec2Model ----
(***************************************************************************)
(* The message service of server.py: a Flask MethodView over one table,    *)
(* "messages", with pydantic (v1 API: validator, .dict) validating the     *)
(* request bodies and SQLAlchemy sessions on PostgreSQL persisting rows.   *)
(*                                                                         *)
(* Requests run concurrently (one worker per request).  GET and POST touch *)
(* the store once and are one step each; PATCH and DELETE first read the   *)
(* row (get_by_id) and later commit, and other requests may commit in      *)
(* between: the session holds the loaded object and the attributes set on  *)
(* it that differ from the loaded values (what its flush will UPDATE).     *)
(*                                                                         *)
(* A handler is an operator from the request and the rows it reads to its  *)
(* response and the rows it leaves (...Result); the action applies it.     *)
(*                                                                         *)
(* Values.  A Python str is a TLA+ string.  A JSON value of a request or   *)
(* response body is a record [type, val]: type "str" (val the string),     *)
(* "num" (val its decimal text), "null", "list"; the pseudo-value Absent   *)
(* stands for a key that the JSON object does not have.                    *)
(***************************************************************************)
EXTENDS Integers, Sequences, FiniteSets, Bags, TLC

VARIABLES
    messages,   \* the rows of table "messages": id -> row
    id_seq,     \* last value drawn from the serial sequence of messages.id
    now,        \* the database clock read by func.now()
    sessions,   \* the bag of open SQLAlchemy sessions that await commit
    last,       \* the HTTP response most recently sent
    req,        \* requests one at a time: the request last handled
    v_in,       \* validation alone: the schema and body given to validate()
    v_out       \* validation alone: what validate() returned

svars == <<messages, id_seq, now, sessions, last>>
\* what the concurrent service leaves alone
ovars == <<req, v_in, v_out>>
vars == <<messages, id_seq, now, sessions, last, req, v_in, v_out>>

-----------------------------------------------------------------------------
(* Bounds *)

\* requests in flight at once
NumWorkers == 2
\* values the id sequence hands out
MaxId == 2

\* ids a request may name: those the sequence can produce
Ids == 1..MaxId

-----------------------------------------------------------------------------
(* JSON and Python values *)

Str(s) == [type |-> "str", val |-> s]
Num(s) == [type |-> "num", val |-> s]
Null == [type |-> "null", val |-> ""]
List == [type |-> "list", val |-> ""]
Absent == [type |-> "absent", val |-> ""]
\* Python None in a validated model
None == [type |-> "null", val |-> ""]

Digits == <<"0", "1", "2", "3", "4", "5", "6", "7", "8", "9">>
\* str(n) / jsonify(n) of a small non-negative integer
IntText(n) == Digits[n + 1]
\* datetime.isoformat() of the clock value t
IsoFormat(t) == "2000-01-01T00:00:0" \o IntText(t)

MaxOwnerLen == 32
Str32 == "nnnnnnnnnnnnnnnnnnnnnnnnnnnnnnnn"
Str33 == "nnnnnnnnnnnnnnnnnnnnnnnnnnnnnnnnn"

Fields == {"title", "text", "owner_name"}

\* The request bodies drawn: per key, the values a client may send.
TitleVals == {Absent, Str("a"), Str("b"), Null}
TextVals == {Absent, Str("x"), Num("7")}
OwnerVals == {Absent, Str(Str32), Str(Str33)}
Bodies == [title : TitleVals, text : TextVals, owner_name : OwnerVals]

\* The bodies drawn for validation alone: every kind of value per field,
\* and keys that are no field of the schemas.
AnyVals == {Absent, Str("a"), Num("7"), Null, List}
AnyOwnerVals == {Absent, Str("o"), Str(Str32), Str(Str33), Num("7"), Null, List}
ExtraVals == {Absent, Num("9")}
ValidatorBodies == [title : AnyVals, text : AnyVals, owner_name : AnyOwnerVals,
                    id : ExtraVals, created_at : ExtraVals]

-----------------------------------------------------------------------------
(* Schema Validator *)

\* pydantic's validation of a value for a field annotated str: a str is
\* kept, a number becomes its text, anything else is a type error.
StrField(v) ==
    IF v.type = "str" THEN [ok |-> TRUE, val |-> Str(v.val), err |-> ""]
    ELSE IF v.type = "num" THEN [ok |-> TRUE, val |-> Str(v.val), err |-> ""]
    ELSE [ok |-> FALSE, val |-> None, err |-> "type_error.str"]

\* check_owner_name with no length rule
check_owner_name_off(r) == r

\* @validator('owner_name'): runs on the value the type validation produced
check_owner_name(r) ==
    IF r.ok /\ Len(r.val.val) > MaxOwnerLen
    THEN [ok |-> FALSE, val |-> None, err |-> "value_error"]
    ELSE r

FieldRule(f, v) ==
    IF f = "owner_name" THEN check_owner_name(StrField(v)) ELSE StrField(v)

\* One field of CreateMessageSchema: required, None not allowed.
CreateField(f, v) ==
    IF v.type = "absent"
    THEN [ok |-> FALSE, val |-> None, err |-> "value_error.missing"]
    ELSE IF v.type = "null"
    THEN [ok |-> FALSE, val |-> None, err |-> "type_error.none.not_allowed"]
    ELSE FieldRule(f, v)

\* One field of PatchMessageSchema: Optional[str], default None; the
\* validators are not run on None.
PatchField(f, v) ==
    IF v.type = "absent" \/ v.type = "null"
    THEN [ok |-> TRUE, val |-> None, err |-> ""]
    ELSE FieldRule(f, v)

CreateMessageSchema == "CreateMessageSchema"
PatchMessageSchema == "PatchMessageSchema"

SchemaField(schema, f, v) ==
    IF schema = CreateMessageSchema THEN CreateField(f, v) ELSE PatchField(f, v)

\* validate(): keys other than the schema's fields are ignored; the result
\* is .dict(exclude_none=True) (data[f] = None: f is not in the dict), or
\* HttpError(400, err.errors()).
validate(body, schema) ==
    LET r == [f \in Fields |-> SchemaField(schema, f, body[f])]
        bad == {f \in Fields : ~r[f].ok}
    IN  [ok |-> bad = {},
         data |-> [f \in Fields |-> IF bad = {} THEN r[f].val ELSE None],
         errors |-> {[loc |-> f, type |-> r[f].err] : f \in bad}]

-----------------------------------------------------------------------------
(* Responses *)

NoExc == "none"

\* jsonify(...) with status 200
Ok(method, body) ==
    [method |-> method, status |-> 200, exc |-> NoExc, body |-> body]

\* error_handler(HttpError(status_code, message))
error_handler(method, status_code, message) ==
    [method |-> method, status |-> status_code, exc |-> NoExc,
     body |-> [status |-> "error", message |-> message]]

\* An exception that is no HttpError leaves the view: Flask answers 500
\* with its own page.
Unhandled(method, exc) ==
    [method |-> method, status |-> 500, exc |-> exc,
     body |-> [html |-> "Internal Server Error"]]

\* get_by_id raising HttpError(400, ...) instead
NotFound_400(method) == error_handler(method, 400, "item not found")

\* get_by_id: raise HttpError(404, 'item not found')
NotFound(method) == error_handler(method, 404, "item not found")

\* no response (yet)
NoResponse == [method |-> "none", status |-> 0, exc |-> NoExc, body |-> [html |-> ""]]

-----------------------------------------------------------------------------
(* Record Store *)

Titles(rows) == {rows[i].title : i \in DOMAIN rows}

\* title = Column(String, nullable=False, unique=True): some row other than
\* `except` holds the title
TitleTaken(rows, title, except) ==
    \E j \in DOMAIN rows : j # except /\ rows[j].title = title

Without(f, i) == [j \in DOMAIN f \ {i} |-> f[j]]
With(f, i, v) == [j \in DOMAIN f \cup {i} |-> IF j = i THEN v ELSE f[j]]

\* The row an INSERT writes: the store assigns id (the caller's key) and
\* created_at (server_default=func.now()).
NewRow(data, t) ==
    [title |-> data["title"].val, text |-> data["text"].val,
     owner_name |-> data["owner_name"].val, created_at |-> t]

\* the INSERT on a title column without unique=True
InsertCommits_NoUnique(rows, data) == TRUE

\* session.add(new_message); session.commit(): one INSERT, which the unique
\* index on title lets commit or not.
InsertCommits(rows, data) == ~TitleTaken(rows, data["title"].val, 0)

\* no session left open
NoSession == [pc |-> "none", id |-> 0, set |-> [f \in Fields |-> None]]

\* for field, value in data_to_patch.items(): setattr(message, field, value)
\* on the loaded row: the attributes whose new value differs from the loaded
\* one are what the unit of work will flush; the others are not modified.
SetAttrs(row, data) ==
    [f \in Fields |-> IF data[f] # None /\ data[f].val # row[f] THEN data[f] ELSE None]

Dirty(s) == {f \in Fields : s.set[f] # None}

\* the UPDATE on a title column without unique=True
UpdateFails_NoUnique(rows, s) ==
    IF Dirty(s) = {} THEN NoExc
    ELSE IF s.id \notin DOMAIN rows THEN "StaleDataError"
    ELSE NoExc

\* The UPDATE of the flush, on the rows as they are at commit: the
\* exception it raises, "none" when it commits (or there is nothing to
\* flush).
UpdateFails(rows, s) ==
    IF Dirty(s) = {} THEN NoExc
    ELSE IF s.id \notin DOMAIN rows THEN "StaleDataError"
    ELSE IF "title" \in Dirty(s) /\ TitleTaken(rows, s.set["title"].val, s.id)
    THEN "IntegrityError"
    ELSE NoExc

\* The rows after the UPDATE commits: the dirty columns of the row.
UpdateRows(rows, s) ==
    IF Dirty(s) = {} \/ s.id \notin DOMAIN rows THEN rows
    ELSE [rows EXCEPT ![s.id] =
             [c \in DOMAIN rows[s.id] |->
                 IF c \in Dirty(s) THEN s.set[c].val ELSE rows[s.id][c]]]

\* a session.delete that is never flushed
DeleteRows_Keep(rows, i) == rows

\* The rows after the DELETE of the flush commits.  A DELETE that matches
\* no row (the row went in between) only draws a warning.
DeleteRows(rows, i) == Without(rows, i)

-----------------------------------------------------------------------------
(* Message Resource Handler *)

\* MessageView.get
GetResult(message_id, rows) ==
    IF message_id \in DOMAIN rows
    THEN Ok("GET",
            [message_title |-> Str(rows[message_id].title),
             message_text |-> Str(rows[message_id].text),
             creation_time |-> Str(IsoFormat(rows[message_id].created_at))])
    ELSE NotFound("GET")

\* MessageView.post.  The sequence value is drawn before the unique index
\* is checked, so a rejected INSERT uses up an id.  id: the id of the row
\* created, 0 when none.
PostResult(json_data, rows, seq, t) ==
    LET v == validate(json_data, CreateMessageSchema)
        new_id == seq + 1
        row == NewRow(v.data, t)
    IN  IF ~v.ok
        THEN [resp |-> error_handler("POST", 400, v.errors),
              messages |-> rows, id_seq |-> seq, now |-> t, id |-> 0]
        ELSE IF InsertCommits(rows, v.data)
        THEN [resp |-> Ok("POST", [status |-> "message posted",
                                   id |-> Num(IntText(new_id)),
                                   message_title |-> Str(row.title),
                                   message_text |-> Str(row.text)]),
              messages |-> With(rows, new_id, row),
              id_seq |-> new_id, now |-> t + 1, id |-> new_id]
        ELSE [resp |-> Unhandled("POST", "IntegrityError"),
              messages |-> rows, id_seq |-> new_id, now |-> t, id |-> 0]

\* MessageView.patch up to the commit: validate, then get_by_id, then the
\* setattr loop.  Either a response or the session left open.
PatchBeginResult(message_id, json_data, rows) ==
    LET v == validate(json_data, PatchMessageSchema)
    IN  IF ~v.ok
        THEN [resp |-> error_handler("PATCH", 400, v.errors), session |-> NoSession]
        ELSE IF message_id \notin DOMAIN rows
        THEN [resp |-> NotFound("PATCH"), session |-> NoSession]
        ELSE [resp |-> NoResponse,
              session |-> [pc |-> "patch", id |-> message_id,
                           set |-> SetAttrs(rows[message_id], v.data)]]

\* A commit per attribute instead of one per request: the
\* columns other than title are written although the title is refused
PatchCommitResult_Partial(s, rows) ==
    LET exc == UpdateFails(rows, s)
    IN  IF exc = NoExc
        THEN [resp |-> Ok("PATCH", [status |-> "success"]),
              messages |-> UpdateRows(rows, s)]
        ELSE IF exc = "IntegrityError"
        THEN [resp |-> Unhandled("PATCH", exc),
              messages |-> UpdateRows(rows, [s EXCEPT !.set["title"] = None])]
        ELSE [resp |-> Unhandled("PATCH", exc), messages |-> rows]

\* MessageView.patch: session.commit() and the response.  A commit that
\* raises leaves the rows as they are (the transaction is rolled back).
PatchCommitResult(s, rows) ==
    LET exc == UpdateFails(rows, s)
    IN  IF exc = NoExc
        THEN [resp |-> Ok("PATCH", [status |-> "success"]),
              messages |-> UpdateRows(rows, s)]
        ELSE [resp |-> Unhandled("PATCH", exc), messages |-> rows]

\* MessageView.delete up to the commit: get_by_id, session.delete
DeleteBeginResult(message_id, rows) ==
    IF message_id \notin DOMAIN rows
    THEN [resp |-> NotFound("DELETE"), session |-> NoSession]
    ELSE [resp |-> NoResponse,
          session |-> [NoSession EXCEPT !.pc = "delete", !.id = message_id]]

\* MessageView.delete: session.commit() and the response
DeleteCommitResult(s, rows) ==
    [resp |-> Ok("DELETE", [status |-> "deletion success"]),
     messages |-> DeleteRows(rows, s.id)]

-----------------------------------------------------------------------------
(* The service *)

NoBody == [f \in Fields |-> Absent]
NoRequest == [method |-> "none", id |-> 0, body |-> NoBody]
NotValidated == [done |-> FALSE, ok |-> FALSE, data |-> [f \in Fields |-> None],
                 errors |-> {}]

Init ==
    /\ messages = [i \in {} |-> 0]
    /\ id_seq = 0
    /\ now = 0
    /\ sessions = EmptyBag
    /\ last = NoResponse
    /\ req = NoRequest
    /\ v_in = [schema |-> "none", body |-> NoBody]
    /\ v_out = NotValidated

\* A request is taken by a worker that is free.
WorkerFree == BagCardinality(sessions) < NumWorkers

Open(s) == sessions (+) SetToBag({s})
Close(s) == sessions (-) SetToBag({s})

Get(message_id) ==
    /\ WorkerFree
    /\ last' = GetResult(message_id, messages)
    /\ UNCHANGED <<messages, id_seq, now, sessions>>
    /\ UNCHANGED ovars

Post(json_data) ==
    LET r == PostResult(json_data, messages, id_seq, now)
    IN  /\ WorkerFree
        /\ r.id_seq <= MaxId
        /\ messages' = r.messages
        /\ id_seq' = r.id_seq
        /\ now' = r.now
        /\ last' = r.resp
        /\ UNCHANGED sessions
        /\ UNCHANGED ovars

PatchBegin(message_id, json_data) ==
    LET r == PatchBeginResult(message_id, json_data, messages)
    IN  /\ WorkerFree
        /\ IF r.session = NoSession
           THEN last' = r.resp /\ UNCHANGED sessions
           ELSE sessions' = Open(r.session) /\ UNCHANGED last
        /\ UNCHANGED <<messages, id_seq, now>>
        /\ UNCHANGED ovars

PatchCommit(s) ==
    LET r == PatchCommitResult(s, messages)
    IN  /\ BagIn(s, sessions)
        /\ s.pc = "patch"
        /\ messages' = r.messages
        /\ last' = r.resp
        /\ sessions' = Close(s)
        /\ UNCHANGED <<id_seq, now>>
        /\ UNCHANGED ovars

DeleteBegin(message_id) ==
    LET r == DeleteBeginResult(message_id, messages)
    IN  /\ WorkerFree
        /\ IF r.session = NoSession
           THEN last' = r.resp /\ UNCHANGED sessions
           ELSE sessions' = Open(r.session) /\ UNCHANGED last
        /\ UNCHANGED <<messages, id_seq, now>>
        /\ UNCHANGED ovars

DeleteCommit(s) ==
    LET r == DeleteCommitResult(s, messages)
    IN  /\ BagIn(s, sessions)
        /\ s.pc = "delete"
        /\ messages' = r.messages
        /\ last' = r.resp
        /\ sessions' = Close(s)
        /\ UNCHANGED <<id_seq, now>>
        /\ UNCHANGED ovars

Next ==
    \/ \E message_id \in Ids : Get(message_id)
    \/ \E json_data \in Bodies : Post(json_data)
    \/ \E message_id \in Ids : \E json_data \in Bodies :
           PatchBegin(message_id, json_data)
    \/ \E s \in BagToSet(sessions) : PatchCommit(s)
    \/ \E message_id \in Ids : DeleteBegin(message_id)
    \/ \E s \in BagToSet(sessions) : DeleteCommit(s)

Spec == Init /\ [][Next]_vars

-----------------------------------------------------------------------------
(* The service with its requests one at a time: each handler runs from the *)
(* request to the response with no other request in between, and the       *)
(* request is kept beside its response.                                    *)

SerialGet(message_id) ==
    /\ req' = [method |-> "GET", id |-> message_id, body |-> NoBody]
    /\ last' = GetResult(message_id, messages)
    /\ UNCHANGED <<messages, id_seq, now>>
    /\ UNCHANGED <<sessions, v_in, v_out>>

SerialPost(json_data) ==
    LET r == PostResult(json_data, messages, id_seq, now)
    IN  /\ r.id_seq <= MaxId
        /\ req' = [method |-> "POST", id |-> 0, body |-> json_data]
        /\ messages' = r.messages
        /\ id_seq' = r.id_seq
        /\ now' = r.now
        /\ last' = r.resp
        /\ UNCHANGED <<sessions, v_in, v_out>>

\* MessageView.patch from validate to the response
PatchResult(message_id, json_data, rows) ==
    LET b == PatchBeginResult(message_id, json_data, rows)
    IN  IF b.session = NoSession
        THEN [resp |-> b.resp, messages |-> rows]
        ELSE PatchCommitResult(b.session, rows)

\* MessageView.delete from get_by_id to the response
DeleteResult(message_id, rows) ==
    LET b == DeleteBeginResult(message_id, rows)
    IN  IF b.session = NoSession
        THEN [resp |-> b.resp, messages |-> rows]
        ELSE DeleteCommitResult(b.session, rows)

SerialPatch(message_id, json_data) ==
    LET r == PatchResult(message_id, json_data, messages)
    IN  /\ req' = [method |-> "PATCH", id |-> message_id, body |-> json_data]
        /\ messages' = r.messages
        /\ last' = r.resp
        /\ UNCHANGED <<id_seq, now>>
        /\ UNCHANGED <<sessions, v_in, v_out>>

SerialDelete(message_id) ==
    LET r == DeleteResult(message_id, messages)
    IN  /\ req' = [method |-> "DELETE", id |-> message_id, body |-> NoBody]
        /\ messages' = r.messages
        /\ last' = r.resp
        /\ UNCHANGED <<id_seq, now>>
        /\ UNCHANGED <<sessions, v_in, v_out>>

NextSerial ==
    \/ \E message_id \in Ids : SerialGet(message_id)
    \/ \E json_data \in Bodies : SerialPost(json_data)
    \/ \E message_id \in Ids : \E json_data \in Bodies :
           SerialPatch(message_id, json_data)
    \/ \E message_id \in Ids : SerialDelete(message_id)

SpecSerial == Init /\ [][NextSerial]_vars

-----------------------------------------------------------------------------
(* The validator alone: validate() applied to one body under one schema *)

InitValidator ==
    /\ messages = [i \in {} |-> 0]
    /\ id_seq = 0
    /\ now = 0
    /\ sessions = EmptyBag
    /\ last = NoResponse
    /\ req = NoRequest
    /\ v_in \in [schema : {CreateMessageSchema, PatchMessageSchema},
                 body : ValidatorBodies]
    /\ v_out = NotValidated

Validate ==
    LET v == validate(v_in.body, v_in.schema)
    IN  /\ ~v_out.done
        /\ v_out' = [done |-> TRUE, ok |-> v.ok, data |-> v.data, errors |-> v.errors]
        /\ UNCHANGED <<v_in, req>>
        /\ UNCHANGED svars

SpecValidator == InitValidator /\ [][Validate]_vars

-----------------------------------------------------------------------------
(* Claims *)

CreateOk(b) == validate(b, CreateMessageSchema).ok
PatchOk(b) == validate(b, PatchMessageSchema).ok
Success(resp) == resp.status = 200
\* the uniform error envelope with a status code of the failure kind
Envelope(resp) ==
    /\ resp.exc = NoExc
    /\ resp.status \in {400, 404}
    /\ "status" \in DOMAIN resp.body
    /\ resp.body.status = "error"
    /\ "message" \in DOMAIN resp.body
ItemNotFound(resp) ==
    /\ Envelope(resp)
    /\ resp.status = 404
    /\ resp.body.message = "item not found"

\* C1: a POST whose body passes validation and whose title no row holds
\* answers 200 with an id and with message_title and message_text equal to
\* the body's title and text, and the GET of that id that follows it (no
\* PATCH or DELETE in between) answers 200 with the same two values.
C1_ReadAfterCreate ==
    [][/\ (/\ req'.method = "POST"
           /\ CreateOk(req'.body)
           /\ ~TitleTaken(messages,
                          validate(req'.body, CreateMessageSchema).data["title"].val, 0))
          => /\ Success(last')
             /\ "id" \in DOMAIN last'.body
             /\ last'.body.message_title = req'.body.title
             /\ last'.body.message_text = req'.body.text
       /\ (/\ req.method = "POST"
           /\ Success(last)
           /\ req'.method = "GET"
           /\ last.body.id = Num(IntText(req'.id)))
          => /\ Success(last')
             /\ last'.body.message_title = req.body.title
             /\ last'.body.message_text = req.body.text]_vars

\* C2: in every state, a POST whose title is the title of a stored row does
\* not succeed, whatever its text and owner_name, and leaves every row as
\* it was and adds none.
C2_DuplicateTitleFails ==
    \A b \in Bodies :
        (b.title.type = "str" /\ TitleTaken(messages, b.title.val, 0))
        => LET r == PostResult(b, messages, id_seq, now)
           IN  ~Success(r.resp) /\ r.messages = messages

\* A POST that passed validation was refused by the unique index: it drew
\* an id, and the store holds the one row it held before.
C2_Witness ==
    /\ last.method = "POST"
    /\ last.exc = "IntegrityError"
    /\ id_seq = 2
    /\ Cardinality(DOMAIN messages) = 1

\* C3: in every state no two rows have the same title, and the commit of a
\* PATCH that sets a row's title to the title of another row does not
\* succeed and writes nothing.
C3_TitlesUnique ==
    /\ \A i, j \in DOMAIN messages : i # j => messages[i].title # messages[j].title
    /\ \A s \in BagToSet(sessions) :
          (/\ s.pc = "patch"
           /\ s.set["title"] # None
           /\ TitleTaken(messages, s.set["title"].val, s.id))
          => LET r == PatchCommitResult(s, messages)
             IN  ~Success(r.resp) /\ r.messages = messages

\* The commit of a PATCH was refused by the unique index with two rows in
\* the store.
C3_Witness ==
    /\ last.method = "PATCH"
    /\ last.exc = "IntegrityError"
    /\ Cardinality(DOMAIN messages) = 2

\* C4: in every state, a body whose owner_name is a string of more than 32
\* characters is answered 400 by POST and by PATCH of any id, with no row
\* written and no session left open, and no stored owner_name is longer
\* than 32 characters.
C4_LongOwnerRejected ==
    /\ \A b \in Bodies :
          (b.owner_name.type = "str" /\ Len(b.owner_name.val) > 32)
          => /\ LET r == PostResult(b, messages, id_seq, now)
                IN  r.resp.status = 400 /\ Envelope(r.resp) /\ r.messages = messages
             /\ \A i \in Ids :
                   LET r == PatchBeginResult(i, b, messages)
                   IN  /\ r.resp.status = 400
                       /\ Envelope(r.resp)
                       /\ r.session = NoSession
                       /\ PatchResult(i, b, messages).messages = messages
    /\ \A i \in DOMAIN messages : Len(messages[i].owner_name) <= 32

\* A PATCH was answered 400 for its owner_name while the store holds a row
\* whose owner_name has exactly 32 characters.
C4_Witness ==
    /\ last.method = "PATCH"
    /\ last.status = 400
    /\ [loc |-> "owner_name", type |-> "value_error"] \in last.body.message
    /\ \E i \in DOMAIN messages : Len(messages[i].owner_name) = 32

\* C5: a PATCH that answers 200 sets each of title, text, owner_name that
\* its body has to the value the body gives, and leaves the row's other
\* columns (created_at among them) and every other row as they were; with
\* the body {} it answers 200 {"status": "success"} and changes nothing.
C5_PatchSetsSuppliedFields ==
    [][(req'.method = "PATCH" /\ req'.id \in DOMAIN messages)
       => /\ req'.body = NoBody
             => (Success(last') /\ last'.body = [status |-> "success"]
                 /\ messages' = messages)
          /\ Success(last')
             => /\ DOMAIN messages' = DOMAIN messages
                /\ \A f \in Fields :
                      IF req'.body[f] # Absent
                      THEN Str(messages'[req'.id][f]) = req'.body[f]
                      ELSE messages'[req'.id][f] = messages[req'.id][f]
                /\ messages'[req'.id].created_at = messages[req'.id].created_at
                /\ \A j \in DOMAIN messages \ {req'.id} :
                      messages'[j] = messages[j]]_vars

\* C6 as claimed: GET, PATCH and DELETE of an id that has no row answer 404
\* "item not found" and leave the rows as they were, for PATCH whatever the
\* body.
C6_MissingIdIs404 ==
    [][(req'.method \in {"GET", "PATCH", "DELETE"} /\ req'.id \notin DOMAIN messages)
       => (ItemNotFound(last') /\ messages' = messages)]_vars

\* C6 as amended: GET, DELETE, and PATCH with a body that passes validation,
\* of an id that has no row answer 404 "item not found" and leave the rows
\* as they were.
C6_MissingIdIs404_ValidBody ==
    [][(/\ req'.method \in {"GET", "PATCH", "DELETE"}
        /\ req'.id \notin DOMAIN messages
        /\ req'.method = "PATCH" => PatchOk(req'.body))
       => (ItemNotFound(last') /\ messages' = messages)]_vars

\* A PATCH with a body that passes validation and changes something was
\* answered 404 for an id the store does not hold, while it holds a row.
C6_Witness ==
    /\ req.method = "PATCH"
    /\ PatchOk(req.body)
    /\ req.body.text # Absent
    /\ req.id \notin DOMAIN messages
    /\ messages # << >>
    /\ ItemNotFound(last)

\* C7: the commit of a DELETE that answers success leaves no row of its id
\* and every other row as it was, and an id that has left the store does
\* not come back whatever step follows: a GET of it answers 404.
C7_DeletedStaysDeleted ==
    [][/\ \A s \in BagToSet(sessions) :
             (DeleteCommit(s) /\ Success(last'))
             => /\ s.id \notin DOMAIN messages'
                /\ DOMAIN messages' = DOMAIN messages \ {s.id}
                /\ \A j \in DOMAIN messages' : messages'[j] = messages[j]
       /\ \A i \in Ids :
             (i <= id_seq /\ i \notin DOMAIN messages)
             => (i \notin DOMAIN messages' /\ ItemNotFound(GetResult(i, messages')))]_vars

\* A DELETE answered success, its id has no row, another row is still
\* there, and a PATCH of the deleted id that read the row before is still
\* to commit.
C7_Witness ==
    /\ last.method = "DELETE"
    /\ Success(last)
    /\ messages # << >>
    /\ \E s \in BagToSet(sessions) :
          s.pc = "patch" /\ s.id \notin DOMAIN messages /\ Dirty(s) # {}

\* C8: no exception other than HttpError leaves a handler, and every
\* response that is no success is the error envelope with a status code of
\* the failure kind.
C8_ErrorsTranslated ==
    /\ last.exc = NoExc
    /\ last.status \notin {0, 200} => Envelope(last)

C10_PatchRuleIsCreateRule ==
    (v_out.done /\ v_in.schema = PatchMessageSchema)
    => \A f \in Fields :
          v_in.body[f] # Absent
          => ((f \notin {e.loc : e \in v_out.errors}) <=> CreateField(f, v_in.body[f]).ok)
====
